---------------------------- MODULE Spec2Model ----------------------------
(***************************************************************************)
(* Smart Contract Sentinel: the pattern scorer (analyzers/                 *)
(* solidity_patterns.py), the on-chain prober (analyzers/onchain_checks.py)*)
(* and the two front ends (rugcheck.py, telegram_bot.py).                  *)
(*                                                                         *)
(* Text is a sequence of one-character strings, so that lower() and the    *)
(* substring test `in` are computed character by character.  Emoji of the  *)
(* source are written as ASCII tags: "[x]" cross mark, "[ok]" check mark,  *)
(* "[warn]" warning sign, "[alarm]" rotating light, "[chart]" bar chart,   *)
(* "[link]" link, "[green]"/"[yellow]"/"[red]" the coloured circles.       *)
(***************************************************************************)
EXTENDS Integers, Sequences, FiniteSets, TLC

VARIABLES
    doc,        \* scorer run: how the explorer's text was composed
    response,   \* scorer run: the explorer's answer to getsourcecode
    stage,      \* scorer run: "fetched" | "analyzed"
    findings,   \* scorer run: what analyze_contract returned
    probeArgs,  \* prober run: the chain argument and the node's behaviour
    probeOut,   \* prober run: what check_honeypot_and_owner did
    user_data,  \* bot: context.user_data["last_report"] of every session
    out         \* front ends: what the last command did (calls, file, reply)

vars == <<doc, response, stage, findings, probeArgs, probeOut,
          user_data, out>>

None == [none |-> TRUE]

-----------------------------------------------------------------------------
(* Text *)

UpperChars ==
    <<"A","B","C","D","E","F","G","H","I","J","K","L","M",
      "N","O","P","Q","R","S","T","U","V","W","X","Y","Z">>

LowerChars ==
    <<"a","b","c","d","e","f","g","h","i","j","k","l","m",
      "n","o","p","q","r","s","t","u","v","w","x","y","z">>

\* the letters A-Z against a-z; every other character is its own lower case
LowerTable ==
    [c \in {UpperChars[i] : i \in DOMAIN UpperChars} |->
        LowerChars[CHOOSE i \in DOMAIN UpperChars : UpperChars[i] = c]]

UpperTable ==
    [c \in {LowerChars[i] : i \in DOMAIN LowerChars} |->
        UpperChars[CHOOSE i \in DOMAIN LowerChars : LowerChars[i] = c]]

lowerChar(c) == IF c \in DOMAIN LowerTable THEN LowerTable[c] ELSE c

upperChar(c) == IF c \in DOMAIN UpperTable THEN UpperTable[c] ELSE c

\* str.lower()
lower(s) == [i \in 1..Len(s) |-> lowerChar(s[i])] \o <<>>

\* str.upper(), used to compose inputs
upper(s) == [i \in 1..Len(s) |-> upperChar(s[i])] \o <<>>

\* a comparison that keeps the letter case
CaseKept(s) == s

\* the case folding both operands of line 101 go through
CaseFold(s) == lower(s)

\* `pat in text` of Python: pat occurs as a contiguous run of text
Contains(pat, text) ==
    \E i \in 0..(Len(text) - Len(pat)) :
        \A j \in 1..Len(pat) : text[i + j] = pat[j]

-----------------------------------------------------------------------------
(* Chain names, hosts and the addresses scanned *)

Ethereum == <<"e","t","h","e","r","e","u","m">>
Bsc == <<"b","s","c">>
Polygon == <<"p","o","l","y","g","o","n">>

Domains == {"eth.blockscout.com", "bsc.blockscout.com", "polygon.blockscout.com"}

Urls == {"https://eth.llamarpc.com", "https://bsc-dataseed.binance.org"}

Tether == "0xdAC17F958D2ee523a2206206994597C13D831ec7"
Wallet == "0x52908400098527886E0F7030069857D2E4169EE7"

Addresses == {Tether, Wallet}

-----------------------------------------------------------------------------
(* analyzers/solidity_patterns.py *)

\* the checks dict, in insertion order (lines 91-97)
checks ==
    << [pattern |-> <<"o","n","l","y","O","w","n","e","r">>,
        message |-> [icon |-> "[ok]",
                     text |-> "Contains access control using onlyOwner."],
        impact  |-> 0],
       [pattern |-> <<"m","i","n","t">>,
        message |-> [icon |-> "[warn]",
                     text |-> "Mint function found (check if restricted)."],
        impact  |-> -20],
       [pattern |-> <<"b","l","a","c","k","l","i","s","t">>,
        message |-> [icon |-> "[warn]",
                     text |-> "Blacklist logic detected (potential sell restriction)."],
        impact  |-> -15],
       [pattern |-> <<"t","x",".","o","r","i","g","i","n">>,
        message |-> [icon |-> "[alarm]",
                     text |-> "Uses tx.origin - potential phishing risk."],
        impact  |-> -40],
       [pattern |-> <<"r","e","n","o","u","n","c","e","O","w","n","e","r",
                      "s","h","i","p">>,
        message |-> [icon |-> "[ok]",
                     text |-> "Ownership can be renounced."],
        impact  |-> 20] >>

Rules == DOMAIN checks

\* lines 102-106: the severity is read off the emoji the message starts with
SeverityOf(message) ==
    IF message.icon = "[alarm]" THEN "High"
    ELSE IF message.icon = "[warn]" THEN "Medium"
    ELSE "Low"

\* lines 107-111: status is message.split(" ")[0], the emoji
RuleFinding(r) ==
    [status   |-> checks[r].message.icon,
     message  |-> checks[r].message,
     severity |-> SeverityOf(checks[r].message)]

\* line 101
Matches(r, source_code) ==
    Contains(CaseFold(checks[r].pattern), CaseFold(source_code))

\* lines 113-114
IssueOf(impact) == IF impact < 0 THEN 1 ELSE 0

\* lines 99-114: the loop over checks.items(), from rule r on
RECURSIVE ScanRules(_, _, _)
ScanRules(r, source_code, acc) ==
    IF r > Len(checks) THEN acc
    ELSE IF Matches(r, source_code)
         THEN ScanRules(r + 1, source_code,
                  [results    |-> Append(acc.results, RuleFinding(r)),
                   risk_score |-> acc.risk_score + checks[r].impact,
                   issues     |-> acc.issues + IssueOf(checks[r].impact)])
         ELSE ScanRules(r + 1, source_code, acc)

Max(a, b) == IF a >= b THEN a ELSE b
Min(a, b) == IF a <= b THEN a ELSE b

\* a scorer that forgets the upper clamp
ClampLowOnly(risk_score) == Max(0, risk_score)

\* line 126
Clamp(risk_score) == Max(0, Min(100, risk_score))

\* lines 129-133
RiskLabel(risk_score) ==
    IF risk_score >= 80 THEN "[green] Low Risk"
    ELSE IF risk_score >= 50 THEN "[yellow] Moderate Risk"
    ELSE "[red] High Risk"

CriticalFinding ==
    [status   |-> "[x] Critical",
     message  |-> [text |-> "Contract not verified - cannot review source."],
     severity |-> "High"]

\* lines 83-87: f"Overall Risk Score: {max(risk_score,0)}/100 (Critical)"
UnverifiedSummary(risk_score) ==
    [status   |-> "[warn] Risk",
     message  |-> [text  |-> "Overall Risk Score",
                   score |-> Max(risk_score, 0),
                   label |-> "Critical"],
     severity |-> "High"]

SafeFinding ==
    [status   |-> "[ok] Safe",
     message  |-> [text |-> "No known risk patterns detected."],
     severity |-> "Low"]

\* lines 136-140: f"Verified: ok | Issues Found: {issues} | Overall Risk:
\* {risk_score}/100 ({risk_label})"
SummaryFinding(issues, risk_score) ==
    [status   |-> "[chart] Summary",
     message  |-> [text   |-> "Verified",
                   issues |-> issues,
                   score  |-> risk_score,
                   label  |-> RiskLabel(risk_score)],
     severity |-> "Info"]

\* a scorer that puts the "no known risk patterns" Finding after the summary
AfterSummary(acc) ==
    LET score == Clamp(acc.risk_score + (IF acc.issues = 0 THEN 10 ELSE 0))
    IN  Append(acc.results, SummaryFinding(acc.issues, score))
          \o (IF acc.issues = 0 THEN <<SafeFinding>> ELSE <<>>)

\* lines 116-142
Conclude(acc) ==
    LET bonus == IF acc.issues = 0 THEN 10 ELSE 0
        safe  == IF acc.issues = 0 THEN <<SafeFinding>> ELSE <<>>
        score == Clamp(acc.risk_score + bonus)
    IN  Append(acc.results \o safe, SummaryFinding(acc.issues, score))

\* an unverified path that goes on to the pattern checks
VerifiedPathAlways(source_code) ==
    Conclude(ScanRules(1, source_code,
                 [results |-> <<>>, risk_score |-> 100, issues |-> 0]))

\* lines 72-142, after the fetch of line 71
AnalyzeSource(source_code) ==
    IF source_code = <<>>
    THEN <<CriticalFinding, UnverifiedSummary(100 - 80)>>
    ELSE Conclude(ScanRules(1, source_code,
                      [results |-> <<>>, risk_score |-> 100, issues |-> 0]))

\* lines 22-28: chain_domains.get(chain.lower(), "eth.blockscout.com")
ExplorerDomain(chain) ==
    LET c == lower(chain)
    IN  IF c = Ethereum THEN "eth.blockscout.com"
        ELSE IF c = Bsc THEN "bsc.blockscout.com"
        ELSE IF c = Polygon THEN "polygon.blockscout.com"
        ELSE "eth.blockscout.com"

\* lines 16-58: the answer of the chain's explorer and what it is turned into.
\* resp.kind:
\*   "transport"  requests.get or resp.json() raised
\*   "falsy"      the JSON value is empty ({} or null)
\*   "no_result"  a JSON object without "result"
\*   "string"     "result" is a string (the explorer's error message)
\*   "empty_list" "result" is []
\*   "scalar"     "result" is neither list, string nor object
\*   "list"       "result" is a list whose first element is an object
\*   "dict"       "result" is an object
\* and resp.SourceCode the "SourceCode" of that object (<<>> when absent)
get_contract_source(address, chain, explorer) ==
    LET resp == explorer[ExplorerDomain(chain)][address] IN
    IF resp.kind \in {"transport", "falsy", "no_result"} THEN <<>>
    ELSE IF resp.kind = "list" THEN resp.SourceCode
    ELSE IF resp.kind = "string" THEN <<>>
    ELSE IF resp.kind \in {"empty_list", "scalar"} THEN <<>>
    ELSE resp.SourceCode

\* lines 65-142; explorer[domain][address] is what that explorer answers
analyze_contract(address, chain, explorer) ==
    AnalyzeSource(get_contract_source(address, chain, explorer))

-----------------------------------------------------------------------------
(* analyzers/onchain_checks.py *)

\* lines 11-14: os.getenv(var, default) is the default only when var is unset;
\* a variable set to the empty string leaves the entry empty
RPC_MAP(blank) ==
    [c \in {Ethereum, Bsc} |->
        IF c = Ethereum
        THEN (IF "ETH_RPC_URL" \in blank THEN "" ELSE "https://eth.llamarpc.com")
        ELSE (IF "BSC_RPC_URL" \in blank THEN ""
              ELSE "https://bsc-dataseed.binance.org")]

\* line 25: RPC_MAP.get(chain.lower()), "" standing for both None and ""
RpcUrl(chain, blank) ==
    IF lower(chain) \in DOMAIN RPC_MAP(blank)
    THEN RPC_MAP(blank)[lower(chain)]
    ELSE ""

\* lines 45-50
abi ==
    << [name |-> "name",     type |-> "function"],
       [name |-> "symbol",   type |-> "function"],
       [name |-> "owner",    type |-> "function"],
       [name |-> "transfer", type |-> "function"] >>

\* an enumeration that lists what the deployed code implements
deployed_functions(node) ==
    LET has(i) == abi[i].name \in node.deployed
        pick[i \in 0..Len(abi)] ==
            IF i = 0 THEN <<>>
            ELSE pick[i - 1] \o (IF has(i) THEN <<abi[i].name>> ELSE <<>>)
    IN  pick[Len(abi)]

\* line 72: contract.all_functions() lists the functions of the ABI the
\* contract object was built with; the node is not asked
all_functions(node) == [i \in 1..Len(abi) |-> abi[i].name]

InSeq(x, seq) == \E i \in 1..Len(seq) : seq[i] = x

\* lines 70-75
TransferTest(node) ==
    IF node.enumRaises
    THEN "[warn] Transfer check failed"
    ELSE IF InSeq("transfer", all_functions(node))
         THEN "[ok] Transfer function exists"
         ELSE "[x] Missing transfer()"

\* lines 78-82: the check mark is looked for in transfer_test
HoneypotRisk(transfer_test) ==
    IF transfer_test = "[ok] Transfer function exists"
    THEN "[green] Transfer function present"
    ELSE "[red] Possible Honeypot (transfer() missing)"

\* a read call to a function the deployed code lacks reverts
CallOk(node, fn) == fn \in node.deployed

\* lines 55-61: name() then symbol(); symbol() is not called once name() failed
TokenCalls(node) == IF CallOk(node, "name") THEN <<"name", "symbol">> ELSE <<"name">>

TokenValue(node) ==
    IF CallOk(node, "name") /\ CallOk(node, "symbol")
    THEN node.name \o " (" \o node.symbol \o ")"
    ELSE "Unknown Token"

\* lines 63-68
OwnerValue(node) ==
    IF CallOk(node, "owner") THEN node.owner
    ELSE "[warn] Owner() not found (may use custom access control)."

\* lines 52-84
SubProbes(node, trace) ==
    [kind  |-> "returned",
     value |-> [token         |-> TokenValue(node),
                owner         |-> OwnerValue(node),
                transfer_test |-> TransferTest(node),
                honeypot_risk |-> HoneypotRisk(TransferTest(node))],
     trace |-> trace \o TokenCalls(node) \o <<"owner", "all_functions">>]

ErrorResult(text, trace) ==
    [kind |-> "returned", value |-> [error |-> text], trace |-> trace]

\* a prober that goes on when the code is empty
NeverEmpty(code) == FALSE

\* line 41
IsEmptyCode(code) == code = "empty"

\* lines 40-84: get_code is called outside any try
ReadCode(node, trace) ==
    IF node.code = "raise"
    THEN [kind |-> "raised", value |-> [fault |-> "get_code"],
          trace |-> Append(trace, "get_code")]
    ELSE IF IsEmptyCode(node.code)
         THEN ErrorResult("No contract code found (EOA address).",
                          Append(trace, "get_code"))
         ELSE SubProbes(node, Append(trace, "get_code"))

\* lines 16-84; net.blank are the RPC variables the environment sets to "",
\* net.at[url][address] is how that endpoint and the address behave
check_honeypot_and_owner(address, chain, net) ==
    LET node == IF RpcUrl(chain, net.blank) = "" THEN None
                ELSE net.at[RpcUrl(chain, net.blank)][address] IN
    IF RpcUrl(chain, net.blank) = ""
    THEN ErrorResult("Unsupported chain. Use 'ethereum' or 'bsc'.", <<>>)
    ELSE IF ~node.connected
    THEN ErrorResult("Cannot connect to RPC node.", <<"HTTPProvider", "is_connected">>)
    ELSE IF ~node.addressValid
    THEN ErrorResult("Invalid address format.",
                     <<"HTTPProvider", "is_connected", "to_checksum_address">>)
    ELSE ReadCode(node, <<"HTTPProvider", "is_connected", "to_checksum_address">>)

-----------------------------------------------------------------------------
(* What the explorers and the nodes hold for the addresses scanned *)

TetherSourceEth ==
    checks[2].pattern \o <<" ">> \o checks[1].pattern

TetherSourceBsc ==
    <<"i","f"," ">> \o checks[4].pattern

\* explorer[domain][address]: Tether is verified on Ethereum and on BSC (with
\* another text), the wallet is no contract anywhere, Polygon has no source
Explorer ==
    [d \in Domains |-> [a \in Addresses |->
        IF a = Tether /\ d = "eth.blockscout.com"
        THEN [kind |-> "list", SourceCode |-> TetherSourceEth]
        ELSE IF a = Tether /\ d = "bsc.blockscout.com"
        THEN [kind |-> "dict", SourceCode |-> TetherSourceBsc]
        ELSE IF d = "polygon.blockscout.com"
        THEN [kind |-> "dict", SourceCode |-> <<>>]
        ELSE [kind |-> "string", SourceCode |-> <<>>]]]

\* net.at[url][address]: Tether is a token on both chains (without owner() on
\* BSC), the wallet has no code; fault is the call that fails this time
Net(fault) ==
    [blank |-> {},
     at    |-> [u \in Urls |-> [a \in Addresses |->
        [blank        |-> {},
         connected    |-> TRUE,
         addressValid |-> TRUE,
         code         |-> IF fault = "get_code" THEN "raise"
                          ELSE IF a = Tether THEN "code" ELSE "empty",
         deployed     |-> IF a # Tether THEN {}
                          ELSE IF u = "https://eth.llamarpc.com"
                          THEN {"name", "symbol", "owner", "transfer"}
                          ELSE {"name", "symbol", "transfer"},
         enumRaises   |-> FALSE,
         name         |-> "Tether USD",
         symbol       |-> "USDT",
         owner        |-> "0xC6CDE7C39eB2f0F0095F41570af89eFC2C1Ea828"]]]]

-----------------------------------------------------------------------------
(* What both front ends use *)

\* what a user may type for the chain
ChainWords == { <<"e","t","h">>, <<"B","N","B">>, Polygon }

\* --chain of the command line, <<>> when left out
CliChains == { <<>>, <<"e","t","h">>, Bsc }

\* every chain a front end can hand to a component
FrontChains ==
    ChainWords \cup {lower(c) : c \in ChainWords} \cup CliChains
               \cup {Ethereum, Bsc}

\* the call that fails during a command, if one does: the last reply_text,
\* the code read of the prober, makedirs or the write of the
\* report writer
ScanFaults == {"none", "get_code", "makedirs", "write", "reply_final"}

ScoreFaults == {"none", "reply_final"}

LastFaults == {"none", "reply_final"}

CliFaults == {"none", "get_code", "makedirs", "write"}

\* analyze_contract(address, chain) against the explorers above
Scored ==
    [a \in Addresses |-> [c \in FrontChains |-> analyze_contract(a, c, Explorer)]]

\* check_honeypot_and_owner(address, chain) against the nodes above, with
\* and without a failing code read
NodeProbed ==
    [a \in Addresses |-> [c \in FrontChains |-> [f \in BOOLEAN |->
        check_honeypot_and_owner(a, c, Net(IF f THEN "get_code" ELSE "none"))]]]

\* the (key, value) pairs of the on-chain mapping in insertion order, as
\* str(dict) and dict.items() go through them
Items(mapping) ==
    IF "error" \in DOMAIN mapping
    THEN << <<"error", mapping.error>> >>
    ELSE << <<"token", mapping.token>>,
            <<"owner", mapping.owner>>,
            <<"transfer_test", mapping.transfer_test>>,
            <<"honeypot_risk", mapping.honeypot_risk>> >>

\* solidity_patterns.py lines 144-159: makedirs is outside the try and raises
\* to the caller; a failed open or dump is caught and leaves no file.  The
\* file is named after the chain, the start of the address and the time.
save_scan_report(address, chain, results, fault) ==
    IF fault = "makedirs" THEN [raised |-> TRUE, file |-> None]
    ELSE IF fault = "write" THEN [raised |-> FALSE, file |-> None]
    ELSE [raised |-> FALSE,
          file   |-> [chain |-> chain, address |-> address, content |-> results]]

Call(component, chain) == [component |-> component, chain |-> chain]

-----------------------------------------------------------------------------
(* rugcheck.py *)

\* onchain_checks.py line 16: chain: str = "ethereum"
DefaultChain == Ethereum

\* rugcheck.py line 58
OnChainFinding(onchain_results) ==
    [status   |-> "[link] On-chain",
     message  |-> [text |-> "str", items |-> Items(onchain_results)],
     severity |-> "Info"]

\* rugcheck.py lines 17-61; chainArg is --chain, <<>> when it is not given
CliMain(address, chainArg, fault) ==
    LET chain   == IF chainArg = <<>> THEN Ethereum ELSE chainArg
        results == Scored[address][chain]
        probe   == NodeProbed[address][DefaultChain][fault = "get_code"]
        onchain_results ==
            IF probe.kind = "raised" THEN [error |-> "get_code failed"]
            ELSE probe.value
        combined_report == results \o <<OnChainFinding(onchain_results)>>
        saved   == save_scan_report(address, chain, combined_report, fault)
    IN  /\ out' = [front     |-> "cli",
                   session   |-> 0,
                   command   |-> "scan",
                   address   |-> address,
                   userChain |-> chainArg,
                   chain     |-> chain,
                   calls     |-> <<Call("scorer", chain),
                                   Call("prober", DefaultChain),
                                   Call("writer", chain)>>,
                   results   |-> results,
                   onchain   |-> onchain_results,
                   file      |-> saved.file,
                   faulted   |-> IF saved.raised THEN "makedirs" ELSE "none",
                   replies   |-> <<>>]
        /\ UNCHANGED <<doc, response, stage, findings, probeArgs, probeOut,
                       user_data>>

-----------------------------------------------------------------------------
(* telegram_bot.py.  main() builds the Application without concurrent       *)
(* updates (line 155), so a handler runs to its end before the next update  *)
(* is taken up: every command is one step.                                  *)

NumSessions == 2

Sessions == 1..NumSessions

NoUserData == [s \in Sessions |-> None]

\* a bot that keeps the last report in one place for all sessions
StoreForAll(data, s, report) == [t \in DOMAIN data |-> report]

\* line 89: context.user_data is the dict of the user the update came from
StoreLastReport(data, s, report) == [data EXCEPT ![s] = report]

\* lines 58-67 and 110-118
ChainOf(args) ==
    LET given == IF Len(args) > 1 THEN lower(args[2]) ELSE Ethereum
    IN  IF given \in {<<"e","t","h">>} THEN Ethereum
        ELSE IF given \in {<<"b","n","b">>, Bsc} THEN Bsc
        ELSE given

\* lines 79-81 and 124-126: the message of the first Finding whose status is
\* the summary's
StaticSummary(results) ==
    IF \E i \in 1..Len(results) : results[i].status = "[chart] Summary"
    THEN results[CHOOSE i \in 1..Len(results) :
                    /\ results[i].status = "[chart] Summary"
                    /\ \A j \in 1..(i - 1) : results[j].status # "[chart] Summary"
                ].message
    ELSE [text |-> "No summary."]

Reply(kind) == [kind |-> kind]

\* what one command of the bot did: the chain the user typed and the one the
\* handler settled on, the components invoked, what they returned, the file
\* written, the call that raised and the replies sent
BotOut(s, cmd, addr, word, chain, calls, res, onchain, file, faulted, replies) ==
    [front     |-> "bot",
     session   |-> s,
     command   |-> cmd,
     address   |-> addr,
     userChain |-> word,
     chain     |-> chain,
     calls     |-> calls,
     results   |-> res,
     onchain   |-> onchain,
     file      |-> file,
     faulted   |-> faulted,
     replies   |-> replies]

UserChain(args) == IF Len(args) > 1 THEN args[2] ELSE <<>>

\* lines 52-98
Scan(s, args, fault) ==
    LET address == args[1]
        chain   == ChainOf(args)
        results == Scored[address][chain]
        probe   == NodeProbed[address][chain][fault = "get_code"]
        reply   == [kind    |-> "summary",
                    static  |-> StaticSummary(results),
                    chain   |-> chain,
                    items   |-> Items(probe.value)]
        saved   == save_scan_report(address, chain, results, fault)
        report  == [address |-> address, chain |-> chain, summary |-> reply]
        Quiet(command_out) ==
            /\ out' = command_out
            /\ UNCHANGED user_data
    IN
    /\ UNCHANGED <<doc, response, stage, findings, probeArgs, probeOut>>
    /\ IF args = <<>>
       THEN Quiet(BotOut(s, "scan", "", <<>>, <<>>, <<>>, <<>>, None, None,
                         "none", <<Reply("usage")>>))
       ELSE IF chain \notin {Ethereum, Bsc}
       THEN Quiet(BotOut(s, "scan", address, UserChain(args), chain, <<>>, <<>>,
                         None, None, "none", <<Reply("unsupported")>>))
       ELSE IF probe.kind = "raised"
       THEN Quiet(BotOut(s, "scan", address, UserChain(args), chain,
                         <<Call("scorer", chain), Call("prober", chain)>>,
                         results, None, None, "probe",
                         <<Reply("scanning"), Reply("failed")>>))
       ELSE IF saved.raised
       THEN Quiet(BotOut(s, "scan", address, UserChain(args), chain,
                         <<Call("scorer", chain), Call("prober", chain),
                           Call("writer", chain)>>,
                         results, probe.value, None, "makedirs",
                         <<Reply("scanning"), Reply("failed")>>))
       ELSE /\ user_data' = StoreLastReport(user_data, s, report)
            /\ out' = BotOut(s, "scan", address, UserChain(args), chain,
                           <<Call("scorer", chain), Call("prober", chain),
                             Call("writer", chain)>>,
                           results, probe.value, saved.file,
                           IF fault = "reply_final" THEN "reply_final" ELSE "none",
                           <<Reply("scanning"),
                             IF fault = "reply_final" THEN Reply("failed")
                             ELSE reply>>)

\* lines 104-130: no chain is refused here
Score(s, args, fault) ==
    LET address == args[1]
        chain   == ChainOf(args)
        results == Scored[address][chain]
    IN
    /\ UNCHANGED <<doc, response, stage, findings, probeArgs, probeOut,
                   user_data>>
    /\ IF args = <<>>
       THEN out' = BotOut(s, "score", "", <<>>, <<>>, <<>>, <<>>, None, None,
                          "none", <<Reply("usage")>>)
       ELSE out' = BotOut(s, "score", address, UserChain(args), chain,
                          <<Call("scorer", chain)>>, results, None, None,
                          IF fault = "reply_final" THEN "reply_final" ELSE "none",
                          <<Reply("calculating"),
                            IF fault = "reply_final" THEN Reply("failed")
                            ELSE [kind |-> "score", static |-> StaticSummary(results)]>>)

\* lines 136-148
Last(s, fault) ==
    LET last_report == user_data[s] IN
    /\ UNCHANGED <<doc, response, stage, findings, probeArgs, probeOut,
                   user_data>>
    /\ IF fault = "reply_final"
       THEN out' = BotOut(s, "last", "", <<>>, <<>>, <<>>, <<>>, None, None,
                          "reply_final", <<>>)
       ELSE IF last_report = None
       THEN out' = BotOut(s, "last", "", <<>>, <<>>, <<>>, <<>>, None, None,
                          "none", <<Reply("nolast")>>)
       ELSE out' = BotOut(s, "last", "", <<>>, <<>>, <<>>, <<>>, None, None,
                          "none",
                          <<[kind    |-> "last",
                             address |-> last_report.address,
                             chain   |-> last_report.chain,
                             summary |-> last_report.summary]>>)

-----------------------------------------------------------------------------
(* The scorer on bounded inputs *)

MaxRepeat == 2

Styles == {"asis", "upper", "lower"}

\* text between the occurrences: nothing, or words that come close to the
\* patterns without containing one
Fillers ==
    { <<>>,
      <<" ","m","i","n"," ","t"," ","o","w","n","e","r"," ","o","r","i","g",
        "i","n"," ","b","l","a","c","k"," ","l","i","s","t"," ">> }

Styled(style, s) ==
    IF style = "upper" THEN upper(s)
    ELSE IF style = "lower" THEN lower(s)
    ELSE s

RECURSIVE Repeat(_, _)
Repeat(s, n) == IF n = 0 THEN <<>> ELSE s \o Repeat(s, n - 1)

RECURSIVE Compose(_, _)
Compose(d, r) ==
    IF r > Len(checks) THEN <<>>
    ELSE Repeat(Styled(d.style, checks[r].pattern) \o d.filler, d.counts[r])
           \o Compose(d, r + 1)

\* the text of a document: its filler, then every pattern as often as counted
TextOf(d) == d.filler \o Compose(d, 1)

Docs == [counts : [Rules -> 0..MaxRepeat], style : Styles, filler : Fillers]

BearingKinds == {"list", "dict"}
EmptyKinds == {"transport", "falsy", "no_result", "string", "empty_list", "scalar"}

IdleDoc == [counts |-> [r \in Rules |-> 0], style |-> "asis", filler |-> <<>>]
IdleResponse == [kind |-> "transport", SourceCode |-> <<>>]
IdleProbeArgs == None
IdleProbeOut == None

InitScorer ==
    /\ doc \in Docs
    /\ \/ /\ response \in [kind : BearingKinds, SourceCode : {TextOf(doc)}]
       \/ /\ doc = IdleDoc
          /\ response \in [kind : EmptyKinds, SourceCode : {<<>>}]
    /\ stage = "fetched"
    /\ findings = <<>>
    /\ probeArgs = IdleProbeArgs
    /\ probeOut = IdleProbeOut
    /\ user_data = NoUserData
    /\ out = None

Analyze ==
    /\ stage = "fetched"
    /\ \E address \in Addresses, chain \in {Ethereum, Bsc, Polygon} :
           findings' = analyze_contract(address, chain,
                           [d \in Domains |-> [a \in Addresses |-> response]])
    /\ stage' = "analyzed"
    /\ UNCHANGED <<doc, response, probeArgs, probeOut, user_data, out>>

NextScorer == Analyze

SpecScorer == InitScorer /\ [][NextScorer]_vars

-----------------------------------------------------------------------------
(* Claims about the scorer, checked under SpecScorer *)

\* the explorer handed over a non-empty text
Verified == response.kind \in BearingKinds /\ TextOf(doc) # <<>>

\* the rules whose pattern the document was composed with
Present == {r \in Rules : doc.counts[r] > 0}

RECURSIVE SumImpacts(_)
SumImpacts(S) ==
    IF S = {} THEN 0
    ELSE LET r == CHOOSE x \in S : TRUE
         IN  checks[r].impact + SumImpacts(S \ {r})

ExpectedIssues(S) == Cardinality({r \in S : checks[r].impact < 0})

ExpectedScore(S) ==
    LET raw == 100 + SumImpacts(S) + (IF ExpectedIssues(S) = 0 THEN 10 ELSE 0)
    IN  IF raw > 100 THEN 100 ELSE IF raw < 0 THEN 0 ELSE raw

ExpectedLabel(score) ==
    IF score >= 80 THEN "[green] Low Risk"
    ELSE IF score >= 50 THEN "[yellow] Moderate Risk"
    ELSE "[red] High Risk"

FinalFinding == findings[Len(findings)]

\* C1: whatever the explorer answered (no source, or a text holding any
\* subset of the five patterns), the score stated in the last Finding that
\* analyze_contract returns is an integer between 0 and 100.
C1_ScoreInRange ==
    stage = "analyzed" => FinalFinding.message.score \in 0..100

\* C1 witness: a verified text whose deltas and bonus add up to more than 100
\* (renounceOwnership and no risky pattern) has been scored.
C1_Witness ==
    /\ stage = "analyzed"
    /\ Verified
    /\ 100 + SumImpacts(Present) + 10 > 100
    /\ ExpectedIssues(Present) = 0
    /\ 5 \in Present

\* C2: on the verified path, for every subset of the five patterns the text
\* holds (in any letter case, however often), the summary states
\* issues = number of matched rules with a negative delta,
\* score = min(100, max(0, 100 + sum of their deltas + 10 if issues = 0)),
\* and the label of that score (>= 80 Low, >= 50 Moderate, else High);
\* tx.origin alone gives 60 / 1 / Moderate, no pattern 100 / 0 / Low,
\* renounceOwnership with mint 100 / 1 / Low.
C2_VerifiedScore ==
    (stage = "analyzed" /\ Verified) =>
        /\ FinalFinding.message.issues = ExpectedIssues(Present)
        /\ FinalFinding.message.score = ExpectedScore(Present)
        /\ FinalFinding.message.label = ExpectedLabel(ExpectedScore(Present))
        /\ Present = {4} =>
              /\ FinalFinding.message.score = 60
              /\ FinalFinding.message.issues = 1
              /\ FinalFinding.message.label = "[yellow] Moderate Risk"
        /\ Present = {} =>
              /\ FinalFinding.message.score = 100
              /\ FinalFinding.message.issues = 0
              /\ FinalFinding.message.label = "[green] Low Risk"
        /\ Present = {2, 5} =>
              /\ FinalFinding.message.score = 100
              /\ FinalFinding.message.issues = 1
              /\ FinalFinding.message.label = "[green] Low Risk"

\* C2 witness: a text holding MINT twice and RENOUNCEOWNERSHIP, in upper
\* case, has been scored.
C2_Witness ==
    /\ stage = "analyzed"
    /\ Verified
    /\ Present = {2, 5}
    /\ doc.counts[2] = 2
    /\ doc.style = "upper"
    /\ FinalFinding.message.score = 100

\* C3: when the fetched source is empty, analyze_contract returns exactly two
\* Findings, none of them a rule's: the High-severity "not verified" notice,
\* then the summary with score 20 and label Critical.
C3_Unverified ==
    (stage = "analyzed" /\ ~Verified) =>
        /\ Len(findings) = 2
        /\ findings[1].status = "[x] Critical"
        /\ findings[1].severity = "High"
        /\ findings[1].message.text = "Contract not verified - cannot review source."
        /\ findings[2].status = "[warn] Risk"
        /\ findings[2].message.score = 20
        /\ findings[2].message.label = "Critical"
        /\ \A i \in 1..Len(findings), r \in Rules : findings[i] # RuleFinding(r)

\* C3 witness: an explorer answer that carries an object without source text
\* has been scored.
C3_Witness ==
    /\ stage = "analyzed"
    /\ response.kind = "dict"
    /\ response.SourceCode = <<>>
    /\ Len(findings) = 2

\* the Findings before the last one
Body == SubSeq(findings, 1, Len(findings) - 1)

\* the Findings of the rules in S, in the order of the table
RECURSIVE RuleFindings(_, _)
RuleFindings(r, S) ==
    IF r > Len(checks) THEN <<>>
    ELSE (IF r \in S THEN <<RuleFinding(r)>> ELSE <<>>) \o RuleFindings(r + 1, S)

IsSummary(f) == f.status = "[chart] Summary"

\* C4 as stated: for a non-empty source the last Finding is the only summary
\* and every Finding before it is the Finding of a matched rule.
C4_Original ==
    (stage = "analyzed" /\ Verified) =>
        /\ IsSummary(FinalFinding)
        /\ \A i \in 1..Len(Body) : ~IsSummary(Body[i])
        /\ \A i \in 1..Len(Body) :
               \E r \in Present : Body[i] = RuleFinding(r)

\* C4 amended: for a non-empty source the last Finding is the only summary;
\* before it come the Findings of the matched rules, one each in table order,
\* followed, exactly when no matched rule has a negative delta, by the one
\* "No known risk patterns detected." Finding.
C4_SummaryLast ==
    (stage = "analyzed" /\ Verified) =>
        /\ IsSummary(FinalFinding)
        /\ \A i \in 1..Len(Body) : ~IsSummary(Body[i])
        /\ Body = RuleFindings(1, Present)
                    \o (IF ExpectedIssues(Present) = 0
                        THEN <<SafeFinding>> ELSE <<>>)

\* C4 witness: a text matching onlyOwner and renounceOwnership only has been
\* scored: two rule Findings, the "no known risk patterns" Finding, the summary.
C4_Witness ==
    /\ stage = "analyzed"
    /\ Verified
    /\ Present = {1, 5}
    /\ Len(findings) = 4
    /\ findings[3] = SafeFinding

-----------------------------------------------------------------------------
(* The prober on bounded inputs *)

ProbeChains ==
    { Ethereum, <<"E","t","h","e","r","e","u","m">>, Bsc, <<"B","S","C">>,
      Polygon, <<"e","t","h">> }

AbiNames == {abi[i].name : i \in 1..Len(abi)}

\* how the endpoint and the address can behave
Nodes ==
    { n \in [blank        : {{}, {"ETH_RPC_URL"}},
             connected    : BOOLEAN,
             addressValid : BOOLEAN,
             code         : {"raise", "empty", "code"},
             deployed     : SUBSET AbiNames,
             enumRaises   : BOOLEAN,
             name         : {"Tether USD"},
             symbol       : {"USDT"},
             owner        : {"0xC6CDE7C39eB2f0F0095F41570af89eFC2C1Ea828"}] :
        n.code # "code" => (n.deployed = {} /\ ~n.enumRaises) }

InitProber ==
    /\ probeArgs \in [chain : ProbeChains, node : Nodes]
    /\ probeOut = IdleProbeOut
    /\ doc = IdleDoc
    /\ response = IdleResponse
    /\ stage = "idle"
    /\ findings = <<>>
    /\ user_data = NoUserData
    /\ out = None

Probe ==
    /\ probeOut = IdleProbeOut
    /\ \E address \in Addresses :
           probeOut' = check_honeypot_and_owner(address, probeArgs.chain,
                           [blank |-> probeArgs.node.blank,
                            at    |-> [u \in Urls |->
                                         [a \in Addresses |-> probeArgs.node]]])
    /\ UNCHANGED <<doc, response, stage, findings, probeArgs, user_data, out>>

NextProber == Probe

SpecProber == InitProber /\ [][NextProber]_vars

-----------------------------------------------------------------------------
(* Claims about the prober, checked under SpecProber *)

Probed == probeOut # IdleProbeOut

SubProbeCalls == {"name", "symbol", "owner", "all_functions"}

CallsMade == {probeOut.trace[i] : i \in 1..Len(probeOut.trace)}

\* the chain argument names an endpoint that is configured
Supported ==
    \/ /\ lower(probeArgs.chain) = Ethereum
       /\ "ETH_RPC_URL" \notin probeArgs.node.blank
    \/ lower(probeArgs.chain) = Bsc

IsErrorMapping == probeOut.kind = "returned" /\ DOMAIN probeOut.value = {"error"}

\* C5: the prober stops at its first failing precondition with a mapping
\* whose only key is error: an unsupported chain before any connection is
\* attempted, an unreachable node or a malformed address before the code is
\* read, an address without code before any of the name/symbol, owner or
\* function-enumeration probes.
C5_EarlyStop ==
    Probed =>
        /\ ~Supported => (IsErrorMapping /\ probeOut.trace = <<>>)
        /\ (Supported /\ ~probeArgs.node.connected) =>
              (IsErrorMapping /\ "to_checksum_address" \notin CallsMade
                 /\ "get_code" \notin CallsMade)
        /\ (Supported /\ probeArgs.node.connected
              /\ ~probeArgs.node.addressValid) =>
              (IsErrorMapping /\ "get_code" \notin CallsMade)
        /\ (Supported /\ probeArgs.node.connected /\ probeArgs.node.addressValid
              /\ probeArgs.node.code = "empty") =>
              (IsErrorMapping /\ CallsMade \cap SubProbeCalls = {})

\* C5 witness: an address without code on a reachable, supported chain has
\* been probed, and the code read was the last call.
C5_Witness ==
    /\ Probed
    /\ Supported
    /\ probeArgs.node.code = "empty"
    /\ probeOut.trace[Len(probeOut.trace)] = "get_code"

FullKeys == {"token", "owner", "transfer_test", "honeypot_risk"}

\* C6 as stated: whatever external call fails, the prober returns a mapping:
\* the one-key error mapping (unsupported chain, cannot connect, invalid
\* address, empty code) or the four-key mapping in which a failed sub-probe
\* shows its fallback string and the others their values.
C6_Total ==
    Probed =>
        /\ probeOut.kind = "returned"
        /\ \/ DOMAIN probeOut.value = {"error"}
           \/ /\ DOMAIN probeOut.value = FullKeys
              /\ probeOut.value.token =
                    (IF {"name", "symbol"} \subseteq probeArgs.node.deployed
                     THEN "Tether USD (USDT)" ELSE "Unknown Token")
              /\ probeOut.value.owner =
                    (IF "owner" \in probeArgs.node.deployed
                     THEN probeArgs.node.owner
                     ELSE "[warn] Owner() not found (may use custom access control).")
              /\ probeArgs.node.enumRaises =>
                    probeOut.value.transfer_test = "[warn] Transfer check failed"

-----------------------------------------------------------------------------
(* The front ends on bounded inputs *)

\* the arguments of /scan and /score
BotArgs ==
    { <<>>, <<Tether>>, <<Wallet>>,
      <<Tether, <<"e","t","h">> >>, <<Tether, <<"B","N","B">> >>,
      <<Wallet, Polygon>> }

InitFront ==
    /\ user_data = NoUserData
    /\ out = None
    /\ doc = IdleDoc
    /\ response = IdleResponse
    /\ stage = "idle"
    /\ findings = <<>>
    /\ probeArgs = IdleProbeArgs
    /\ probeOut = IdleProbeOut

NextFront ==
    \/ \E s \in Sessions, args \in BotArgs, fault \in ScanFaults : Scan(s, args, fault)
    \/ \E s \in Sessions, args \in BotArgs, fault \in ScoreFaults : Score(s, args, fault)
    \/ \E s \in Sessions, fault \in LastFaults : Last(s, fault)
    \/ \E address \in Addresses, chainArg \in CliChains, fault \in CliFaults :
           CliMain(address, chainArg, fault)

SpecFront == InitFront /\ [][NextFront]_vars

-----------------------------------------------------------------------------
(* Claims about the front ends, checked under SpecFront *)

Scanned == out # None /\ out.command = "scan"

\* C7 as stated: every report a scan writes, from the command line or from
\* /scan, is the scorer's Findings in order followed by one on-chain Finding
\* whose message is the stringified on-chain mapping of that scan.
C7_ReportHasOnChain ==
    (Scanned /\ out.file # None) =>
        out.file.content =
            Append(out.results,
                   [status   |-> "[link] On-chain",
                    message  |-> [text |-> "str", items |-> Items(out.onchain)],
                    severity |-> "Info"])

\* the alias normalization of the claim: eth -> ethereum, bnb or bsc -> bsc,
\* no chain given -> ethereum
Normalized(word) ==
    LET w == lower(word)
    IN  IF w = <<>> \/ w = <<"e","t","h">> THEN Ethereum
        ELSE IF w = <<"b","n","b">> \/ w = Bsc THEN Bsc
        ELSE w

\* C8 as stated: in every scan, from the command line or from /scan, the
\* scorer, the prober and the report writer are invoked with one chain, the
\* normalized chain the user gave.
C8_SameChain ==
    Scanned =>
        \A i \in 1..Len(out.calls) :
            out.calls[i].chain = Normalized(out.userChain)

FinalReply(o) == o.replies[Len(o.replies)]

\* the step is a /scan of session s that completed without error: its last
\* reply is the scan's result
ScanCompleted(s) ==
    /\ out'.command = "scan" /\ out'.front = "bot" /\ out'.session = s
    /\ out'.replies # <<>>
    /\ FinalReply(out').kind = "summary"

\* the step is a /scan of session s in which the scorer, the prober and the
\* report writer all returned
ScanAnalysed(s) ==
    /\ out'.command = "scan" /\ out'.front = "bot" /\ out'.session = s
    /\ Len(out'.calls) = 3
    /\ out'.faulted \in {"none", "reply_final"}

\* the step is a /last of session s that is answered from the value the
\* session holds: "no previous scan" when there is none, else its address
\* and chain
LastShowsStored(s) ==
    (out'.command = "last" /\ out'.session = s /\ out'.replies # <<>>) =>
        IF user_data[s] = None
        THEN FinalReply(out').kind = "nolast"
        ELSE /\ FinalReply(out').kind = "last"
             /\ FinalReply(out').address = user_data[s].address
             /\ FinalReply(out').chain = user_data[s].chain

\* C9 as stated: the last-report value of a session is the address and chain
\* of its most recent /scan that completed without error, and /last answers
\* with it; every other command (a /score, a /last, a rejected /scan, a /scan
\* that ended with "Scan failed", any command of another session) leaves it
\* unchanged.
C9_LastCompletedScan ==
    [][\A s \in Sessions :
          /\ ScanCompleted(s) =>
                /\ user_data'[s].address = out'.address
                /\ user_data'[s].chain = out'.chain
          /\ ~ScanCompleted(s) => user_data'[s] = user_data[s]
          /\ LastShowsStored(s)]_vars

\* C9 amended: the last-report value of a session is the address and chain of
\* its most recent /scan in which scorer, prober and report writer returned
\* without a fault, whether or not the final reply of that scan could be
\* sent, and /last answers with it; every other command (a /score, a /last,
\* a rejected /scan, a /scan in which the prober or the report writer raised,
\* any command of another session) leaves it unchanged.
C9_LastAnalysedScan ==
    [][\A s \in Sessions :
          /\ ScanAnalysed(s) =>
                /\ user_data'[s].address = out'.address
                /\ user_data'[s].chain = out'.chain
          /\ ~ScanAnalysed(s) => user_data'[s] = user_data[s]
          /\ LastShowsStored(s)]_vars

\* C9 witness: session 1 is answered by /last with its scan of Tether on BSC
\* while session 2 holds a scan of the wallet on Ethereum.
C9_Witness ==
    /\ out # None
    /\ out.command = "last"
    /\ out.session = 1
    /\ out.replies # <<>>
    /\ FinalReply(out).kind = "last"
    /\ FinalReply(out).address = Tether
    /\ FinalReply(out).chain = Bsc
    /\ user_data[2] # None
    /\ user_data[2].address = Wallet
    /\ user_data[2].chain = Ethereum

=============================================================================
